---------------------------- MODULE Spec2Model ----------------------------
(***************************************************************************)
(* A model of the crocus web scrapers (scripts/webscrapers): the shared    *)
(* BaseScraper, the iShares pipeline and the Vanguard pipeline.            *)
(*                                                                         *)
(* Texts.  A Python str is a sequence of symbols.  A symbol is either one  *)
(* character that JSON or URL handling treats specially (the quote, the    *)
(* backslash, the newline, a non-ASCII letter, ".", "?", "&", "=") or a    *)
(* chunk of plain ASCII characters that every conversion copies unchanged. *)
(* None is a value of its own, so that None and the str "null" differ.     *)
(*                                                                         *)
(* Dicts.  A Python dict is the sequence of its <<key, value>> items in    *)
(* insertion order, keys pairwise distinct.                                *)
(***************************************************************************)
EXTENDS Integers, Sequences, FiniteSets, TLC

VARIABLES
    entry,              \* who drives the scraper: a provider's main(), or a caller of its methods
    pc,                 \* position of the caller (main, or a direct call)
    exc,                \* the exception that ended the run: its type and the method that raised it
    log,                \* the logger's records, <<level, message>>
    quitCalls,          \* how many times quit() was called
    clicked,            \* the buttons clicked, in order
    listing,            \* the rendered listing page: its tbody sections, each a sequence of rows
    intermediate_json,  \* iShares: the provisional records, keyed dummy_key_i
    products,           \* the snapshot dict held in memory (final_json / products_dict)
    cursor,             \* the index of the next item of the loop in progress
    yielded,            \* the ISIN text each visited detail page yielded, in visiting order
    requested,          \* the HTTP requests made, in order: url and status received
    files,              \* the download folder: file name -> content, mtime
    clock,              \* the filesystem's time
    loaded,             \* what _read_products_json last returned
    waits,              \* how many times wait.until was called
    calls               \* the direct calls a caller made: method and arguments

vars == <<entry, pc, exc, log, quitCalls, clicked, listing, intermediate_json, products,
          cursor, yielded, requested, files, clock, loaded, waits, calls>>

-----------------------------------------------------------------------------
(* Python values *)

NoneV == [isNone |-> TRUE, s |-> <<>>]
Str(s) == [isNone |-> FALSE, s |-> s]

(* dict *)
DictKeys(d) == {d[i][1] : i \in 1..Len(d)}
DictHas(d, k) == k \in DictKeys(d)
DictIndex(d, k) == CHOOSE i \in 1..Len(d) : d[i][1] = k
DictGet(d, k) == d[DictIndex(d, k)][2]
\* (a variant of DictSet: an existing key keeps its first value)
DictSetKeepingFirst(d, k, v) == IF DictHas(d, k) THEN d ELSE Append(d, <<k, v>>)

\* d[k] = v: a new key is appended, an existing key keeps its place and
\* takes the new value
DictSet(d, k, v) ==
    IF DictHas(d, k)
    THEN [d EXCEPT ![DictIndex(d, k)] = <<k, v>>]
    ELSE Append(d, <<k, v>>)

RECURSIVE Concat(_)
Concat(ss) == IF ss = <<>> THEN <<>> ELSE Head(ss) \o Concat(Tail(ss))

-----------------------------------------------------------------------------
(* json.dump(products, json_file, indent=4) *)

Quote == "\""
Backslash == "\\"
Newline == "\n"
EAcute == "U+00E9"         \* the one non-ASCII letter of the model
IndentUnit == "    "

\* (a variant of JsonEscapeSymbol: the quote is written as it is)
JsonEscapeSymbolQuoteRaw(c) ==
    CASE c = Backslash -> <<Backslash, Backslash>>
      [] c = Newline -> <<Backslash, "n">>
      [] c = EAcute -> <<Backslash, "u00e9">>
      [] OTHER -> <<c>>

\* json.encoder.py_encode_basestring_ascii on one symbol
JsonEscapeSymbol(c) ==
    CASE c = Quote -> <<Backslash, Quote>>
      [] c = Backslash -> <<Backslash, Backslash>>
      [] c = Newline -> <<Backslash, "n">>
      [] c = EAcute -> <<Backslash, "u00e9">>
      [] OTHER -> <<c>>

JsonDumpStr(s) ==
    <<Quote>> \o Concat([i \in 1..Len(s) |-> JsonEscapeSymbol(s[i])]) \o <<Quote>>

JsonIndent(level) == [i \in 1..level |-> IndentUnit]

JsonDumpScalar(v) == IF v.isNone THEN <<"null">> ELSE JsonDumpStr(v.s)

\* a dict nested `depth` deep (depth 1: its values are str or None), written
\* at nesting level `level`
RECURSIVE JsonDumpDict(_, _, _)
JsonDumpDict(d, depth, level) ==
    IF d = <<>> THEN <<"{", "}">>
    ELSE LET item(i) ==
                 JsonIndent(level + 1) \o JsonDumpStr(d[i][1]) \o <<":", " ">>
                 \o (IF depth = 1 THEN JsonDumpScalar(d[i][2])
                     ELSE JsonDumpDict(d[i][2], depth - 1, level + 1))
                 \o (IF i < Len(d) THEN <<",", Newline>> ELSE <<Newline>>)
         IN <<"{", Newline>> \o Concat([i \in 1..Len(d) |-> item(i)])
            \o JsonIndent(level) \o <<"}">>

-----------------------------------------------------------------------------
(* json.load(file) *)

JsonFail == [ok |-> FALSE, val |-> <<>>, next |-> 0]
JsonOk(v, n) == [ok |-> TRUE, val |-> v, next |-> n]

JsonWhitespace == {" ", Newline, IndentUnit}

RECURSIVE JsonSkipWs(_, _)
JsonSkipWs(t, i) ==
    IF i <= Len(t) /\ t[i] \in JsonWhitespace THEN JsonSkipWs(t, i + 1) ELSE i

\* json.decoder.py_scanstring, from the symbol after the opening quote
RECURSIVE JsonScanString(_, _, _)
JsonScanString(t, i, acc) ==
    IF i > Len(t) THEN JsonFail
    ELSE IF t[i] = Quote THEN JsonOk(acc, i + 1)
    ELSE IF t[i] = Newline THEN JsonFail      \* a raw control character
    ELSE IF t[i] = Backslash THEN
        IF i + 1 > Len(t) THEN JsonFail
        ELSE CASE t[i + 1] = Quote -> JsonScanString(t, i + 2, Append(acc, Quote))
               [] t[i + 1] = Backslash -> JsonScanString(t, i + 2, Append(acc, Backslash))
               [] t[i + 1] = "n" -> JsonScanString(t, i + 2, Append(acc, Newline))
               [] t[i + 1] = "u00e9" -> JsonScanString(t, i + 2, Append(acc, EAcute))
               [] OTHER -> JsonFail
    ELSE JsonScanString(t, i + 1, Append(acc, t[i]))

\* json.decoder.JSONObject and scanner.py_make_scanner: a value is null, a
\* string or an object; JsonParseMembers reads the members after "{" (or
\* after a ","), `acc` the items read so far; a repeated key keeps the last
\* value
RECURSIVE JsonParseValue(_, _)
RECURSIVE JsonParseMembers(_, _, _)
JsonParseValue(t, i) ==
    IF i > Len(t) THEN JsonFail
    ELSE IF t[i] = "null" THEN JsonOk(NoneV, i + 1)
    ELSE IF t[i] = Quote THEN
        LET r == JsonScanString(t, i + 1, <<>>)
        IN IF r.ok THEN JsonOk(Str(r.val), r.next) ELSE JsonFail
    ELSE IF t[i] = "{" THEN
        LET j == JsonSkipWs(t, i + 1)
        IN IF j <= Len(t) /\ t[j] = "}" THEN JsonOk(<<>>, j + 1)
           ELSE JsonParseMembers(t, j, <<>>)
    ELSE JsonFail

JsonParseMembers(t, i, acc) ==
    IF i > Len(t) \/ t[i] # Quote THEN JsonFail
    ELSE LET k == JsonScanString(t, i + 1, <<>>)
         IN IF ~k.ok THEN JsonFail
            ELSE LET c == JsonSkipWs(t, k.next)
                 IN IF c > Len(t) \/ t[c] # ":" THEN JsonFail
                    ELSE LET v == JsonParseValue(t, JsonSkipWs(t, c + 1))
                         IN IF ~v.ok THEN JsonFail
                            ELSE LET e == JsonSkipWs(t, v.next)
                                     acc2 == DictSet(acc, k.val, v.val)
                                 IN IF e > Len(t) THEN JsonFail
                                    ELSE IF t[e] = "}" THEN JsonOk(acc2, e + 1)
                                    ELSE IF t[e] = ","
                                    THEN JsonParseMembers(t, JsonSkipWs(t, e + 1), acc2)
                                    ELSE JsonFail

\* json.load of a whole document: one value, then only whitespace
JsonLoad(t) ==
    LET r == JsonParseValue(t, JsonSkipWs(t, 1))
    IN IF r.ok /\ JsonSkipWs(t, r.next) > Len(t) THEN r ELSE JsonFail

-----------------------------------------------------------------------------
(* str and URL helpers *)

Digits == <<"0", "1", "2", "3", "4", "5", "6", "7", "8", "9">>

\* str(i) for i >= 0, one symbol per digit
RECURSIVE IntText(_)
IntText(i) == IF i < 10 THEN <<Digits[i + 1]>> ELSE IntText(i \div 10) \o <<Digits[(i % 10) + 1]>>

IndexOf(s, sep) ==
    IF \E i \in 1..Len(s) : s[i] = sep
    THEN CHOOSE i \in 1..Len(s) : s[i] = sep /\ \A j \in 1..(i - 1) : s[j] # sep
    ELSE 0

\* s.split(sep)[0]
SplitFirst(s, sep) == IF IndexOf(s, sep) = 0 THEN s ELSE SubSeq(s, 1, IndexOf(s, sep) - 1)

\* s.split(sep)
RECURSIVE Split(_, _)
Split(s, sep) ==
    IF IndexOf(s, sep) = 0 THEN <<s>>
    ELSE <<SubSeq(s, 1, IndexOf(s, sep) - 1)>> \o Split(SubSeq(s, IndexOf(s, sep) + 1, Len(s)), sep)

\* urllib.parse.urlparse(url).query: what lies between the first "?" and the
\* fragment
UrlQuery(url) ==
    LET u == SplitFirst(url, "#")
    IN IF IndexOf(u, "?") = 0 THEN <<>> ELSE SubSeq(u, IndexOf(u, "?") + 1, Len(u))

\* urllib.parse.parse_qs(query): the <<name, value>> pairs in order; a pair
\* with no "=" or with a blank value is left out
ParseQs(query) ==
    LET parts == Split(query, "&")
        kept == SelectSeq(parts, LAMBDA nv :
                    /\ IndexOf(nv, "=") # 0
                    /\ IndexOf(nv, "=") < Len(nv))
    IN [i \in 1..Len(kept) |->
           << SubSeq(kept[i], 1, IndexOf(kept[i], "=") - 1),
              SubSeq(kept[i], IndexOf(kept[i], "=") + 1, Len(kept[i])) >>]

\* (a variant of FileExtension: the last value of fileType is taken)
FileExtensionLastValue(url) ==
    LET vals == SelectSeq(ParseQs(UrlQuery(url)), LAMBDA nv : nv[1] = <<"fileType">>)
    IN IF vals = <<>> THEN <<"csv">> ELSE vals[Len(vals)][2]

\* parse_qs(parsed_url.query).get("fileType", ["csv"])[0]
FileExtension(url) ==
    LET vals == SelectSeq(ParseQs(UrlQuery(url)), LAMBDA nv : nv[1] = <<"fileType">>)
    IN IF vals = <<>> THEN <<"csv">> ELSE vals[1][2]

\* a dict literal with str keys
PyRecord(names, values) == [i \in 1..Len(names) |-> << <<names[i]>>, values[i] >>]
Field(r, name) == DictGet(r, <<name>>)

-----------------------------------------------------------------------------
(* The download folder *)

\* products_json_path = f"{download_folder_path}/products.json"
ProductsJsonName == <<"products", ".", "json">>

NoFiles == [n \in {} |-> [content |-> <<>>, mtime |-> 0]]

\* (a variant of FileWrite: an existing file is written over from its start
\* and not truncated)
FileWriteWithoutTruncating(fs, name, content, t) ==
    [n \in (DOMAIN fs) \cup {name} |->
        IF n # name THEN fs[n]
        ELSE IF name \in DOMAIN fs /\ Len(fs[name].content) > Len(content)
        THEN [content |-> content \o SubSeq(fs[name].content, Len(content) + 1,
                                             Len(fs[name].content)),
              mtime |-> t]
        ELSE [content |-> content, mtime |-> t]]

\* open(path, "w") ... write: the file is created or replaced
FileWrite(fs, name, content, t) ==
    [n \in (DOMAIN fs) \cup {name} |->
        IF n = name THEN [content |-> content, mtime |-> t] ELSE fs[n]]


-----------------------------------------------------------------------------
(* BaseScraper *)

NoExc == [type |-> "none", at |-> ""]
Raised(type, at) == [type |-> type, at |-> at]

Info(msg) == <<"info", msg>>
Error(msg) == <<"error", msg>>

\* WebDriverWait(driver, 20).until(condition): the element, or after 20 s
\* selenium.common.exceptions.TimeoutException (NoSuchElementException is
\* among the exceptions until() itself ignores while polling)
WaitTimeout == "TimeoutException"

\* the except clause of _click_button_by_xpath
ClickHandled == {"NoSuchElementException"}

\* _click_button_by_xpath(xpath, btn_name), `clickable` whether the element
\* becomes clickable within the wait: the log records written, whether the
\* button is clicked, how many waits were made, and the exception that leaves
\* the method
ClickButtonByXpath(btn_name, clickable) ==
    IF clickable
    THEN [logs |-> <<Info("Clicking the button")>>, click |-> TRUE, waits |-> 1,
          raised |-> NoExc]
    ELSE IF WaitTimeout \in ClickHandled
    THEN [logs |-> <<Info("Clicking the button"), Error("No button found")>>,
          click |-> FALSE, waits |-> 1, raised |-> NoExc]
    ELSE [logs |-> <<Info("Clicking the button")>>, click |-> FALSE, waits |-> 1,
          raised |-> Raised(WaitTimeout, "_click_button_by_xpath")]

\* the locator kinds _get_located_element matches
LocatorKinds == {"classname", "xpath"}

\* the except clause of _get_located_element
LocateHandled == {"NoSuchElementException"}

\* (a variant of GetLocatedElement: the handler catches every exception, the
\* ValueError of an unsupported locator too)
GetLocatedElementCatchingAll(locator, present) ==
    IF locator \notin LocatorKinds
    THEN [logs |-> <<Error("Locator not implemented"), Error("Element not found")>>,
          waits |-> 0, raised |-> Raised("UnboundLocalError", "_get_located_element")]
    ELSE IF present THEN [logs |-> <<>>, waits |-> 1, raised |-> NoExc]
    ELSE [logs |-> <<Error("Element not found")>>, waits |-> 1,
          raised |-> Raised("UnboundLocalError", "_get_located_element")]

\* _get_located_element(element_id, locator), `present` whether the element
\* is present within the wait: the log records written, how many waits were
\* made and the exception that leaves the method ("none": the element is
\* returned).  A handled exception falls through to `return web_element` with
\* web_element never bound.
GetLocatedElement(locator, present) ==
    IF locator \notin LocatorKinds
    THEN [logs |-> <<Error("Locator not implemented")>>, waits |-> 0,
          raised |-> Raised("ValueError", "_get_located_element")]
    ELSE IF present THEN [logs |-> <<>>, waits |-> 1, raised |-> NoExc]
    ELSE IF WaitTimeout \in LocateHandled
    THEN [logs |-> <<Error("Element not found")>>, waits |-> 1,
          raised |-> Raised("UnboundLocalError", "_get_located_element")]
    ELSE [logs |-> <<>>, waits |-> 1, raised |-> Raised(WaitTimeout, "_get_located_element")]

\* the body of _write_products_json(products), products nested `depth` deep
WriteProductsJson(p, depth) ==
    /\ files' = FileWrite(files, ProductsJsonName, JsonDumpDict(p, depth, 0), clock + 1)
    /\ clock' = clock + 1

\* the value _read_products_json() returns or the exception it raises
ReadProductsJson ==
    IF ProductsJsonName \notin DOMAIN files
    THEN [raised |-> Raised("FileNotFoundError", "_read_products_json"), data |-> <<>>]
    ELSE LET r == JsonLoad(files[ProductsJsonName].content)
         IN IF r.ok THEN [raised |-> NoExc, data |-> r.val]
            ELSE [raised |-> Raised("JSONDecodeError", "_read_products_json"), data |-> <<>>]

\* max(files, key=os.path.getmtime)
LatestFile(fs) == CHOOSE n \in DOMAIN fs : \A m \in DOMAIN fs : fs[m].mtime <= fs[n].mtime

\* latest_file.split(".")[-1], taken on the whole path: "" when the name has
\* no "." (the download folder's path has none either, and the last piece is
\* then the path itself: see RenameLatestDownloadedFile)
HasExtension(name) == \E i \in 1..Len(name) : name[i] = "."
LastPiece(name) == Split(name, ".")[Len(Split(name, "."))]

\* os.rename(src, dst) within the folder: dst is replaced when it exists
FileRename(fs, src, dst) ==
    [n \in ((DOMAIN fs) \ {src}) \cup {dst} |-> IF n = dst THEN fs[src] ELSE fs[n]]

\* (a variant of RenameLatestDownloadedFile: what os.rename raises is not
\* caught)
RenameLatestDownloadedFileUncaught(fs, new_file_name, osFails) ==
    IF DOMAIN fs = {}
    THEN [logs |-> <<Error("No files found in the download folder")>>, files |-> fs,
          result |-> FALSE, raised |-> NoExc]
    ELSE IF osFails \/ ~(\E i \in 1..Len(LatestFile(fs)) : LatestFile(fs)[i] = ".")
    THEN [logs |-> <<Info("Renaming file")>>, files |-> fs, result |-> FALSE,
          raised |-> Raised("OSError", "_rename_latest_downloaded_file")]
    ELSE [logs |-> <<Info("Renaming file")>>,
          files |-> FileRename(fs, LatestFile(fs),
                       new_file_name \o <<".">> \o LastPiece(LatestFile(fs))),
          result |-> TRUE, raised |-> NoExc]

\* _rename_latest_downloaded_file(new_file_name), `osFails` whether os.rename
\* raises: the log records written, the folder afterwards, the value returned
\* and the exception that leaves the method (none: `except Exception` catches
\* what os.rename raises).  For a latest file without "." the last piece of
\* the split is its whole absolute path, the new path lies in a directory
\* that does not exist and os.rename raises.
RenameLatestDownloadedFile(fs, new_file_name, osFails) ==
    IF DOMAIN fs = {}
    THEN [logs |-> <<Error("No files found in the download folder")>>, files |-> fs,
          result |-> FALSE, raised |-> NoExc]
    ELSE LET latest_file == LatestFile(fs)
             new_name == new_file_name \o <<".">> \o LastPiece(latest_file)
         IN IF osFails \/ ~HasExtension(latest_file)
            THEN [logs |-> <<Info("Renaming file"), Error("Error renaming file")>>,
                  files |-> fs, result |-> FALSE, raised |-> NoExc]
            ELSE [logs |-> <<Info("Renaming file")>>,
                  files |-> FileRename(fs, latest_file, new_name), result |-> TRUE,
                  raised |-> NoExc]

\* requests.get(url): the status code and the body received
HttpOk == 200
HttpResponses ==
    { [status |-> 200, content |-> <<"holdings rows">>],
      [status |-> 404, content |-> <<"Not Found">>],
      [status |-> 500, content |-> <<"Server Error">>] }

\* (a variant of DownloadFileWithRequest: the body is written whatever the status)
DownloadFileWithRequestAnyStatus(fs, t, file_name, resp) ==
    [logs |-> IF resp.status = HttpOk THEN <<Info("Downloading file")>>
              ELSE <<Info("Downloading file"), Error("Failed to download file")>>,
     files |-> FileWrite(fs, file_name, resp.content, t + 1), clock |-> t + 1]

\* _download_file_with_request(url, file_name), `resp` the response received:
\* the log records written and the folder afterwards
DownloadFileWithRequest(fs, t, file_name, resp) ==
    IF resp.status = HttpOk
    THEN [logs |-> <<Info("Downloading file")>>,
          files |-> FileWrite(fs, file_name, resp.content, t + 1), clock |-> t + 1]
    ELSE [logs |-> <<Info("Downloading file"), Error("Failed to download file")>>,
          files |-> fs, clock |-> t]

-----------------------------------------------------------------------------
(* ISharesScraper *)

MaxRows == 2

IsRowTypes == { <<"ETF">>, <<"Fund">>, <<"ETC">> }

\* row i of the rendered screener table, its type column `type`
IsRow(i, type) ==
    [ type |-> type,
      name |-> <<"iShares Fund ", Digits[i + 1], Newline, "EUR">>,
      product_page |-> <<"https://ishares/product/", Digits[i + 1]>>,
      currency |-> <<"USD">>, hedged |-> <<"No">>, acc_distr |-> <<"Acc">>,
      ter |-> <<"0,07%">>, date |-> <<"31/10/2024">> ]

IsListings ==
    UNION { { [i \in 1..n |-> IsRow(i, types[i])] : types \in [1..n -> IsRowTypes] } :
            n \in 0..MaxRows }

\* (a variant of IsAdmitted: only rows of type "Fund" are skipped)
IsAdmittedUnlessFund(row) == row.type # <<"Fund">>

\* if row.find_element(By.XPATH, ".//td[1]").text != "ETF": continue
IsAdmitted(row) == row.type = <<"ETF">>

\* (a variant of IsCycleTroughTbody: i counts every row, skipped ones too)
RECURSIVE IsCycleTroughTbodyCountingRows(_, _, _, _)
IsCycleTroughTbodyCountingRows(trows, r, i, results) ==
    IF r > Len(trows) THEN results
    ELSE IF ~IsAdmitted(trows[r])
    THEN IsCycleTroughTbodyCountingRows(trows, r + 1, i + 1, results)
    ELSE IsCycleTroughTbodyCountingRows(trows, r + 1, i + 1,
            DictSet(results, <<"dummy_key_">> \o IntText(i),
                PyRecord(<<"name", "currency", "hedged", "acc_distr", "ter", "date",
                           "product_page">>,
                         <<Str(trows[r].name), Str(trows[r].currency), Str(trows[r].hedged),
                           Str(trows[r].acc_distr), Str(trows[r].ter), Str(trows[r].date),
                           Str(trows[r].product_page)>>)))

\* _cycle_trough_tbody(tbody_element) of _get_intermediate_products_json:
\* `results` and `i` after the rows from index `r` on
RECURSIVE IsCycleTroughTbody(_, _, _, _)
IsCycleTroughTbody(trows, r, i, results) ==
    IF r > Len(trows) THEN results
    ELSE IF ~IsAdmitted(trows[r]) THEN IsCycleTroughTbody(trows, r + 1, i, results)
    ELSE IsCycleTroughTbody(trows, r + 1, i + 1,
            DictSet(results, <<"dummy_key_">> \o IntText(i),
                PyRecord(<<"name", "currency", "hedged", "acc_distr", "ter", "date",
                           "product_page">>,
                         <<Str(trows[r].name), Str(trows[r].currency), Str(trows[r].hedged),
                           Str(trows[r].acc_distr), Str(trows[r].ter), Str(trows[r].date),
                           Str(trows[r].product_page)>>)))

\* the elements _scrape_single_product_infos locates, in the order it does
IsDetailElements == <<"isin", "price", "ticker", "factsheet", "kid", "holdings_file">>

IsinTexts == { <<>>, <<"IE00A">>, <<"IE00B">> }
HoldingsUrls ==
    { <<"https://ishares/holdings", "?", "fileType", "=", "xls", "&", "dataType", "=", "fund">>,
      <<"https://ishares/holdings", "?", "dataType", "=", "fund">>,
      <<"https://ishares/holdings", "?", "fileType", "=", "&", "dataType", "=", "fund">>,
      <<"https://ishares/holdings", "?", "dataType", "=", "fund", "&", "fileType", "=", "xlsx",
        "&", "fileType", "=", "csv", "#", "tab", "&", "fileType", "=", "xls">> }

\* what _scrape_single_product_infos returns on a page where every element
\* is found, the ISIN element reading `isin` and the holdings link `url`
IsAdditionalInfos(isin, url) ==
    PyRecord(<<"isin", "ticker", "price", "factsheet", "kid", "holdings_file">>,
             <<Str(isin), Str(<<"TCK">>), Str(<<"5,12">>), Str(<<"https://ishares/factsheet">>),
               Str(<<"https://ishares/kid">>), Str(url)>>)

\* (a variant of IsFinalRecord: the holdings link is left out of the record)
IsFinalRecordWithoutHoldings(prov, infos) ==
    PyRecord(<<"name", "fund_type", "currency", "ter", "price", "date", "factsheet", "kid",
               "product_page">>,
             <<Str(SplitFirst(Field(prov, "name").s, Newline)), NoneV,
               Field(prov, "currency"), Field(prov, "ter"), Field(infos, "price"),
               Field(prov, "date"), Field(infos, "factsheet"), Field(infos, "kid"),
               Field(prov, "product_page")>>)

\* the record _get_final_products_json stores for one provisional record
IsFinalRecord(prov, infos) ==
    PyRecord(<<"name", "fund_type", "currency", "ter", "price", "date", "factsheet", "kid",
               "product_page", "holdings_file">>,
             <<Str(SplitFirst(Field(prov, "name").s, Newline)), NoneV,
               Field(prov, "currency"), Field(prov, "ter"), Field(infos, "price"),
               Field(prov, "date"), Field(infos, "factsheet"), Field(infos, "kid"),
               Field(prov, "product_page"), Field(infos, "holdings_file")>>)

\* final_json[additional_infos["isin"]] = {...}
IsStoreFinal(final_json, prov, infos) ==
    DictSet(final_json, Field(infos, "isin").s, IsFinalRecord(prov, infos))

\* a step of main() that only clicks a button
IsClickStep(at, btn_name, next) ==
    /\ pc = at
    /\ \E clickable \in BOOLEAN :
          LET r == ClickButtonByXpath(btn_name, clickable)
          IN /\ log' = log \o r.logs
             /\ clicked' = IF r.click THEN Append(clicked, btn_name) ELSE clicked
             /\ waits' = waits + r.waits
             /\ exc' = r.raised
             /\ pc' = IF r.raised = NoExc THEN next ELSE "crashed"
    /\ UNCHANGED <<entry, quitCalls, listing, intermediate_json, products, cursor, yielded,
                   requested, files, clock, loaded,
                   calls>>

\* scraper.open_web_page(ALL_PRODUCTS_PAGE)
IsOpen ==
    /\ pc = "is_open"
    /\ log' = Append(log, Info("Opening web page"))
    /\ pc' = "is_banner_cookie"
    /\ UNCHANGED <<entry, exc, quitCalls, clicked, listing, intermediate_json, products, cursor,
                   yielded, requested, files, clock, loaded, waits,
                   calls>>

\* handle_initial_banners: the cookie banner, then the investor banner
IsBannerCookie == IsClickStep("is_banner_cookie", "cookie", "is_banner_investor")
IsBannerInvestor == IsClickStep("is_banner_investor", "professional investor", "is_view_all")

\* view_all_products
IsViewAll == IsClickStep("is_view_all", "View all", "is_extract")

\* get_products_json, to the start of the loop of _get_final_products_json:
\* _get_intermediate_products_json, then final_json = {}
IsExtract ==
    /\ pc = "is_extract"
    /\ \E present \in BOOLEAN :
          LET r == GetLocatedElement("xpath", present)
              inter == IsCycleTroughTbody(listing[1], 1, 0, <<>>)
          IN /\ log' = log \o <<Info("Cycling through products table")>> \o r.logs
             /\ waits' = waits + r.waits
             /\ exc' = r.raised
             /\ IF r.raised # NoExc
                THEN /\ pc' = "crashed"
                     /\ UNCHANGED <<entry, intermediate_json, products, cursor>>
                ELSE /\ intermediate_json' = inter
                     /\ products' = <<>>
                     /\ cursor' = 1
                     /\ pc' = IF inter = <<>> THEN "is_persist" ELSE "is_enrich"
    /\ UNCHANGED <<entry, quitCalls, clicked, listing, yielded, requested, files, clock, loaded,
                   calls>>

\* one iteration of the loop of _get_final_products_json:
\* _scrape_single_product_infos on the record's page, `missing` the first
\* element of the page that is not found (0: all are found), then the store
\* into final_json
IsEnrich ==
    /\ pc = "is_enrich"
    /\ cursor <= Len(intermediate_json)
    /\ \E missing \in 0..Len(IsDetailElements), isin \in IsinTexts, url \in HoldingsUrls :
          LET prov == intermediate_json[cursor][2]
              r == GetLocatedElement("xpath", missing = 0)
          IN /\ log' = log \o <<Info("Opening web page")>> \o r.logs
             /\ yielded' = IF missing = 1 THEN yielded ELSE Append(yielded, isin)
             /\ waits' = waits + (IF missing = 0 THEN Len(IsDetailElements) ELSE missing)
             /\ exc' = r.raised
             /\ IF r.raised # NoExc
                THEN /\ pc' = "crashed"
                     /\ UNCHANGED <<entry, products, cursor>>
                ELSE /\ products' = IsStoreFinal(products, prov, IsAdditionalInfos(isin, url))
                     /\ cursor' = cursor + 1
                     /\ pc' = IF cursor = Len(intermediate_json) THEN "is_persist"
                              ELSE "is_enrich"
    /\ UNCHANGED <<entry, quitCalls, clicked, listing, intermediate_json, requested, files, clock,
                   loaded,
                   calls>>

\* self._write_products_json(final_json); return final_json
IsPersist ==
    /\ pc = "is_persist"
    /\ WriteProductsJson(products, 2)
    /\ cursor' = 1
    /\ pc' = IF products = <<>> THEN "is_quit" ELSE "is_acquire"
    /\ UNCHANGED <<entry, exc, log, quitCalls, clicked, listing, intermediate_json, products,
                   yielded, requested, loaded, waits,
                   calls>>

\* the file name download_product_files gives the record stored under isin
IsFileName(isin, product) ==
    isin \o <<".">> \o FileExtension(Field(product, "holdings_file").s)

\* one iteration of the loop of ISharesScraper.download_product_files
IsAcquire ==
    /\ pc = "is_acquire"
    /\ cursor <= Len(products)
    /\ \E resp \in HttpResponses :
          LET isin == products[cursor][1]
              product == products[cursor][2]
              r == DownloadFileWithRequest(files, clock, IsFileName(isin, product), resp)
          IN /\ log' = log \o r.logs
             /\ files' = r.files
             /\ clock' = r.clock
             /\ requested' = Append(requested,
                    [url |-> Field(product, "holdings_file").s, status |-> resp.status])
    /\ cursor' = cursor + 1
    /\ pc' = IF cursor = Len(products) THEN "is_quit" ELSE "is_acquire"
    /\ UNCHANGED <<entry, exc, quitCalls, clicked, listing, intermediate_json, products, yielded,
                   loaded, waits,
                   calls>>

\* scraper.quit()
IsQuit ==
    /\ pc = "is_quit"
    /\ log' = Append(log, Info("Closing the WebDriver"))
    /\ quitCalls' = quitCalls + 1
    /\ pc' = "done"
    /\ UNCHANGED <<entry, exc, clicked, listing, intermediate_json, products, cursor, yielded,
                   requested, files, clock, loaded, waits,
                   calls>>

\* a file an earlier run of the same day left in the download folder
StaleFile == [content |-> <<"stale rows">>, mtime |-> 0]
\* the snapshot file an earlier run of the same day left
StaleSnapshot ==
    [content |-> JsonDumpDict(<< << <<"IE00Z">>, PyRecord(<<"name">>, <<Str(<<"old">>)>>) >> >>,
                              2, 0),
     mtime |-> 0]
IsInitialFolders ==
    { NoFiles, [n \in { <<"IE00A", ".", "csv">> } |-> StaleFile],
      [n \in { ProductsJsonName } |-> StaleSnapshot] }

IsInit ==
    /\ entry = "ishares.main"
    /\ pc = "is_open"
    /\ exc = NoExc
    /\ log = <<>>
    /\ quitCalls = 0
    /\ clicked = <<>>
    /\ listing \in { <<rows>> : rows \in IsListings }
    /\ intermediate_json = <<>>
    /\ products = <<>>
    /\ cursor = 1
    /\ yielded = <<>>
    /\ requested = <<>>
    /\ files \in IsInitialFolders
    /\ clock = 0
    /\ loaded = <<>>
    /\ waits = 0
    /\ calls = <<>>

IsNext ==
    \/ IsOpen
    \/ IsBannerCookie
    \/ IsBannerInvestor
    \/ IsViewAll
    \/ IsExtract
    \/ IsEnrich
    \/ IsPersist
    \/ IsAcquire
    \/ IsQuit

SpecIShares == IsInit /\ [][IsNext]_vars

-----------------------------------------------------------------------------
(* VanguardScraper *)

VgPartitions == <<"equity", "bond", "multi_asset">>
VgIsins == { <<"IE00A">>, <<"IE00B">> }

\* row i of the tbody of partition p, its ISIN column `isin`
VgRow(p, i, isin) ==
    [ name |-> <<VgPartitions[p], " fund ", Digits[i + 1], Newline, "UCITS ETF">>,
      product_page |-> <<"https://vanguard/product/", VgPartitions[p], "/", Digits[i + 1]>>,
      currency |-> <<"EUR">>, ter |-> <<"0,22%">>, price |-> <<"101,5">>,
      date |-> <<"31/10/2024">>, isin |-> isin, ticker |-> <<"VNG">>,
      factsheet |-> <<"https://vanguard/factsheet">>, kid |-> <<"https://vanguard/kid">> ]

VgTbodies(p) ==
    UNION { { [i \in 1..n |-> VgRow(p, i, isins[i])] : isins \in [1..n -> VgIsins] } :
            n \in 0..MaxRows }

VgListings == { <<e, b, m>> : e \in VgTbodies(1), b \in VgTbodies(2), m \in VgTbodies(3) }

\* s.replace("\n", " ")
ReplaceNewlines(s) == [i \in 1..Len(s) |-> IF s[i] = Newline THEN " " ELSE s[i]]

\* _cycle_trough_tbody(tbody_element) of VanguardScraper.get_products_json:
\* `results` after the rows from index `r` on
RECURSIVE VgCycleTroughTbody(_, _, _)
VgCycleTroughTbody(trows, r, results) ==
    IF r > Len(trows) THEN results
    ELSE VgCycleTroughTbody(trows, r + 1,
            DictSet(results, trows[r].isin,
                PyRecord(<<"name", "ticker", "currency", "ter", "price", "date", "factsheet",
                           "kid", "product_page">>,
                         <<Str(ReplaceNewlines(<<"Vanguard ">> \o trows[r].name)),
                           Str(trows[r].ticker), Str(trows[r].currency), Str(trows[r].ter),
                           Str(trows[r].price), Str(trows[r].date), Str(trows[r].factsheet),
                           Str(trows[r].kid), Str(trows[r].product_page)>>)))

\* products_dict as get_products_json builds it: one dict per partition
VgProductsDict(tbodies) ==
    [p \in 1..Len(VgPartitions) |->
        << <<VgPartitions[p]>>, VgCycleTroughTbody(tbodies[p], 1, <<>>) >>]

\* the methods BaseScraper and VanguardScraper define; self._save_products_json
\* is none of them, and looking it up raises AttributeError
ScraperMethods ==
    { "_initialize_classwide_logger", "_configure_driver", "_generate_download_folder_path",
      "_rename_latest_downloaded_file", "quit", "open_web_page", "_click_button_by_xpath",
      "_get_located_element", "_write_products_json", "_read_products_json",
      "_download_file_with_request", "handle_initial_banners", "get_products_json",
      "download_product_files", "_download_single_product_holdings" }

\* self.<method>(...) of a method that only saves the snapshot: the exception
\* the call raises ("none": the method exists and is run)
CallSave(method, at) ==
    IF method \in ScraperMethods THEN NoExc ELSE Raised("AttributeError", at)

\* the browser's download manager stores a file under `name`, or under
\* "name (k)" when the name is taken
BrowserDownload(fs, name, t) ==
    LET numbered(k) == <<name[1], " (", Digits[k + 1], ")">> \o Tail(name)
        free == IF name \notin DOMAIN fs THEN name
                ELSE numbered(CHOOSE k \in 1..9 :
                        /\ numbered(k) \notin DOMAIN fs
                        /\ \A j \in 1..(k - 1) : numbered(j) \in DOMAIN fs)
    IN FileWrite(fs, free, <<"holdings sheet">>, t)

\* the names the site gives its holdings download; <<>>: the click starts no
\* download
VgDownloads == { <<>>, <<"Holdings_details", ".", "xlsx">>, <<"Holdings_details">> }

\* match product_type of _download_single_product_holdings
VgKnownTypes == {"equity", "bond", "multi_asset"}

\* _download_single_product_holdings(product_type, isin_number, product_page)
\* on the folder fs at time t; `present` whether the download button is
\* found, `download` the file the click makes the browser store, `osFails`
\* whether os.rename raises
VgDownloadSingleProductHoldings(fs, t, product_type, isin_number, present, download, osFails) ==
    LET head == <<Info("Downloading the holdings file"), Info("Opening web page")>>
        loc == GetLocatedElement("xpath", present)
        fs2 == IF download = <<>> THEN fs ELSE BrowserDownload(fs, download, t + 1)
        ren == RenameLatestDownloadedFile(fs2, isin_number, osFails)
    IN IF product_type \notin VgKnownTypes
       THEN [logs |-> head \o <<Error("Unknown product type")>>, click |-> FALSE,
             waits |-> 0, files |-> fs, clock |-> t,
             raised |-> Raised("ValueError", "_download_single_product_holdings")]
       ELSE IF loc.raised # NoExc
       THEN [logs |-> head \o loc.logs, click |-> FALSE, waits |-> loc.waits, files |-> fs,
             clock |-> t, raised |-> loc.raised]
       ELSE [logs |-> head \o ren.logs, click |-> TRUE, waits |-> loc.waits,
             files |-> ren.files, clock |-> t + 1, raised |-> ren.raised]

(* main() *)

VgClickStep(at, btn_name, next) ==
    /\ pc = at
    /\ \E clickable \in BOOLEAN :
          LET r == ClickButtonByXpath(btn_name, clickable)
          IN /\ log' = log \o r.logs
             /\ clicked' = IF r.click THEN Append(clicked, btn_name) ELSE clicked
             /\ waits' = waits + r.waits
             /\ exc' = r.raised
             /\ pc' = IF r.raised = NoExc THEN next ELSE "crashed"
    /\ UNCHANGED <<entry, quitCalls, listing, intermediate_json, products, cursor, yielded,
                   requested, files, clock, loaded,
                   calls>>

\* scraper.open_web_page(ALL_PRODUCTS_PAGE)
VgOpen ==
    /\ pc = "vg_open"
    /\ log' = Append(log, Info("Opening web page"))
    /\ pc' = "vg_banner_cookie"
    /\ UNCHANGED <<entry, exc, quitCalls, clicked, listing, intermediate_json, products, cursor,
                   yielded, requested, files, clock, loaded, waits,
                   calls>>

\* handle_initial_banners: the cookie banner, then the investor banner
VgBannerCookie == VgClickStep("vg_banner_cookie", "cookie", "vg_banner_professional")
VgBannerProfessional == VgClickStep("vg_banner_professional", "professional investor", "vg_extract")

\* get_products_json: the three tbody elements are located (`missing` the
\* first that is not found, 0: all are found), the rows are read into
\* products_dict, and self._save_products_json(products_dict) is called
VgGetProductsJson ==
    /\ pc = "vg_extract"
    /\ \E missing \in 0..Len(VgPartitions) :
          LET r == GetLocatedElement("xpath", missing = 0)
              save == CallSave("_save_products_json", "get_products_json")
          IN /\ log' = log \o <<Info("Cycling through products table")>> \o r.logs
             /\ waits' = waits + (IF missing = 0 THEN Len(VgPartitions) ELSE missing)
             /\ IF r.raised # NoExc
                THEN /\ exc' = r.raised
                     /\ pc' = "crashed"
                     /\ UNCHANGED <<entry, products, files, clock, cursor>>
                ELSE /\ products' = VgProductsDict(listing)
                     /\ exc' = save
                     /\ IF save # NoExc
                        THEN /\ pc' = "crashed"
                             /\ UNCHANGED <<entry, files, clock, cursor>>
                        ELSE /\ WriteProductsJson(products', 3)
                             /\ cursor' = 1
                             /\ pc' = "vg_acquire"
    /\ UNCHANGED <<entry, quitCalls, clicked, listing, intermediate_json, yielded, requested,
                   loaded,
                   calls>>

(* direct calls of the scraper's methods, as a caller holding the object makes *)

MaxCalls == 2

\* a direct call as `calls` records it: the method, its locator or
\* product_type and its isin_number or new_file_name where it takes one, and
\* what it returned ("raised": it ended on an exception)
Call(method, kind, isin, result) ==
    [method |-> method, kind |-> kind, isin |-> isin, result |-> result]
Returned(raised, value) == IF raised = NoExc THEN value ELSE "raised"

\* the arguments of the direct calls
VgCallTypes == VgKnownTypes \cup {"commodity"}
VgCallLocators == LocatorKinds \cup {"id", "css"}
VgCallDicts ==
    { << <<<<"commodity">>, VgCycleTroughTbody(<<VgRow(1, 1, <<"IE00A">>)>>, 1, <<>>)>> >>,
      VgProductsDict(<< <<VgRow(1, 1, <<"IE00A">>)>>, <<VgRow(2, 1, <<"IE00B">>)>>, <<>> >>) }

\* scraper.download_product_files(products_dict): its first statement is
\* self._save_products_json(products_dict)
VgCallDownloadProductFiles ==
    /\ pc = "vg_call"
    /\ cursor <= MaxCalls
    /\ \E d \in VgCallDicts :
          LET save == CallSave("_save_products_json", "download_product_files")
          IN /\ products' = d
             /\ exc' = save
             /\ IF save # NoExc
                THEN /\ pc' = "crashed"
                     /\ UNCHANGED <<entry, files, clock, cursor>>
                ELSE /\ WriteProductsJson(d, 3)
                     /\ cursor' = 1
                     /\ pc' = "vg_acquire"
    /\ calls' = Append(calls,
           Call("download_product_files", "", <<>>,
                Returned(CallSave("_save_products_json", "download_product_files"), "None")))
    /\ UNCHANGED <<entry, log, quitCalls, clicked, listing, intermediate_json, yielded, requested,
                   loaded, waits>>

\* scraper._download_single_product_holdings(product_type, isin, product_page)
VgCallDownloadSingle ==
    /\ pc = "vg_call"
    /\ cursor <= MaxCalls
    /\ \E product_type \in VgCallTypes, isin \in VgIsins, present \in BOOLEAN,
          download \in VgDownloads, osFails \in BOOLEAN :
          LET r == VgDownloadSingleProductHoldings(files, clock, product_type, isin,
                                                   present, download, osFails)
          IN /\ log' = log \o r.logs
             /\ clicked' = IF r.click THEN Append(clicked, "holdings download") ELSE clicked
             /\ files' = r.files
             /\ clock' = r.clock
             /\ waits' = waits + r.waits
             /\ exc' = r.raised
             /\ yielded' = Append(yielded, isin)
             /\ calls' = Append(calls,
                    Call("_download_single_product_holdings", product_type, isin,
                         Returned(r.raised, "None")))
             /\ pc' = IF r.raised = NoExc THEN "vg_call" ELSE "crashed"
    /\ cursor' = cursor + 1
    /\ UNCHANGED <<entry, quitCalls, listing, intermediate_json, products, requested, loaded>>

\* scraper._get_located_element(element_id, locator)
VgCallGetLocatedElement ==
    /\ pc = "vg_call"
    /\ cursor <= MaxCalls
    /\ \E locator \in VgCallLocators, present \in BOOLEAN :
          LET r == GetLocatedElement(locator, present)
          IN /\ log' = log \o r.logs
             /\ waits' = waits + r.waits
             /\ exc' = r.raised
             /\ calls' = Append(calls,
                    Call("_get_located_element", locator, <<>>, Returned(r.raised, "element")))
             /\ pc' = IF r.raised = NoExc THEN "vg_call" ELSE "crashed"
    /\ cursor' = cursor + 1
    /\ UNCHANGED <<entry, quitCalls, clicked, listing, intermediate_json, products, yielded,
                   requested, files, clock, loaded>>

\* scraper._write_products_json(products_dict)
VgCallWriteProductsJson ==
    /\ pc = "vg_call"
    /\ cursor <= MaxCalls
    /\ \E d \in VgCallDicts :
          /\ products' = d
          /\ WriteProductsJson(d, 3)
    /\ calls' = Append(calls, Call("_write_products_json", "", <<>>, "None"))
    /\ cursor' = cursor + 1
    /\ UNCHANGED <<entry, pc, exc, log, quitCalls, clicked, listing, intermediate_json, yielded,
                   requested, loaded, waits>>

\* scraper._rename_latest_downloaded_file(new_file_name)
VgCallRenameLatestDownloadedFile ==
    /\ pc = "vg_call"
    /\ cursor <= MaxCalls
    /\ \E new_file_name \in VgIsins, osFails \in BOOLEAN :
          LET r == RenameLatestDownloadedFile(files, new_file_name, osFails)
          IN /\ log' = log \o r.logs
             /\ files' = r.files
             /\ exc' = r.raised
             /\ calls' = Append(calls,
                    Call("_rename_latest_downloaded_file", "", new_file_name,
                         Returned(r.raised, IF r.result THEN "True" ELSE "False")))
             /\ pc' = IF r.raised = NoExc THEN "vg_call" ELSE "crashed"
    /\ cursor' = cursor + 1
    /\ UNCHANGED <<entry, quitCalls, clicked, listing, intermediate_json, products, yielded,
                   requested, clock, loaded, waits>>

VgInitialFolders ==
    { NoFiles, [n \in { <<"IE00A", ".", "xlsx">> } |-> StaleFile] }

VgInit ==
    /\ entry \in {"vanguard.main", "vanguard.calls"}
    /\ pc = (IF entry = "vanguard.main" THEN "vg_open" ELSE "vg_call")
    /\ exc = NoExc
    /\ log = <<>>
    /\ quitCalls = 0
    /\ clicked = <<>>
    /\ listing \in (IF entry = "vanguard.main" THEN VgListings ELSE {<<>>})
    /\ intermediate_json = <<>>
    /\ products = <<>>
    /\ cursor = 1
    /\ yielded = <<>>
    /\ requested = <<>>
    /\ files \in (IF entry = "vanguard.main" THEN {NoFiles} ELSE VgInitialFolders)
    /\ clock = 0
    /\ loaded = <<>>
    /\ waits = 0
    /\ calls = <<>>

VgNext ==
    \/ VgOpen
    \/ VgBannerCookie
    \/ VgBannerProfessional
    \/ VgGetProductsJson
    \/ VgCallDownloadProductFiles
    \/ VgCallDownloadSingle
    \/ VgCallGetLocatedElement
    \/ VgCallWriteProductsJson
    \/ VgCallRenameLatestDownloadedFile

SpecVanguard == VgInit /\ [][VgNext]_vars

-----------------------------------------------------------------------------
(* A caller of the Catalog Store: a snapshot held in memory is written with *)
(* _write_products_json and read back with _read_products_json             *)

MaxStoreKeys == 1

StoreTexts ==
    { <<>>, <<"IE00A">>, <<"null">>, <<Quote>>, <<"a", Backslash, "n">>,
      <<"x", Newline, EAcute>> }
StoreRecords ==
    {<<>>} \cup
    { PyRecord(<<"name", "fund_type">>, <<a, b>>) :
        a \in {NoneV} \cup {Str(s) : s \in StoreTexts},
        b \in {NoneV, Str(<<"null">>)} }
StoreSnapshots ==
    UNION { { d \in [1..n -> StoreTexts \X StoreRecords] :
                \A i, j \in 1..n : i # j => d[i][1] # d[j][1] } :
            n \in 0..MaxStoreKeys }

StoreInit ==
    /\ entry = "store.calls"
    /\ pc = "store_start"
    /\ exc = NoExc
    /\ log = <<>>
    /\ quitCalls = 0
    /\ clicked = <<>>
    /\ listing = <<>>
    /\ intermediate_json = <<>>
    /\ products \in StoreSnapshots
    /\ cursor = 1
    /\ yielded = <<>>
    /\ requested = <<>>
    /\ files = NoFiles
    /\ clock = 0
    /\ loaded = <<>>
    /\ waits = 0
    /\ calls = <<>>

\* scraper._write_products_json(products)
StoreWrite ==
    /\ pc = "store_start"
    /\ WriteProductsJson(products, 2)
    /\ pc' = "store_written"
    /\ UNCHANGED <<entry, exc, log, quitCalls, clicked, listing, intermediate_json, products,
                   cursor, yielded, requested, loaded, waits,
                   calls>>

\* loaded = scraper._read_products_json()
StoreRead ==
    /\ pc \in {"store_start", "store_written"}
    /\ LET r == ReadProductsJson
       IN /\ exc' = r.raised
          /\ loaded' = r.data
          /\ pc' = IF r.raised = NoExc THEN "store_read" ELSE "crashed"
    /\ UNCHANGED <<entry, log, quitCalls, clicked, listing, intermediate_json, products,
                   cursor, yielded, requested, files, clock, waits,
                   calls>>

\* scraper._write_products_json(products) again, with another snapshot
MaxWrites == 2
StoreLaterSnapshots ==
    { <<>>,
      << << <<"IE00A">>, PyRecord(<<"name", "fund_type">>, <<Str(<<"later">>), NoneV>>) >> >> }
StoreWriteAgain ==
    /\ pc = "store_written"
    /\ clock < MaxWrites
    /\ products' \in StoreLaterSnapshots
    /\ WriteProductsJson(products', 2)
    /\ UNCHANGED <<entry, pc, exc, log, quitCalls, clicked, listing, intermediate_json,
                   cursor, yielded, requested, loaded, waits, calls>>

StoreNext == StoreWrite \/ StoreWriteAgain \/ StoreRead

SpecStore == StoreInit /\ [][StoreNext]_vars

-----------------------------------------------------------------------------
(* Every driver together *)

Init == IsInit \/ VgInit \/ StoreInit
Next == IsNext \/ VgNext \/ StoreNext
Spec == Init /\ [][Next]_vars

-----------------------------------------------------------------------------
(* Properties *)

ErrorCount(msg) == Cardinality({i \in 1..Len(log) : log[i] = Error(msg)})
WarningsOrErrors == {i \in 1..Len(log) : log[i][1] \in {"warning", "error"}}
MainEntries == {"ishares.main", "vanguard.main"}
RunEnded == pc \in {"done", "crashed"}

\* C1: a snapshot written by _write_products_json and read back by
\* _read_products_json is returned equal to the snapshot written, every key
\* and every field with its value (None stays None, a str stays that str).
C1_RoundTrip ==
    (entry = "store.calls" /\ pc \in {"store_read", "crashed"}
        /\ ProductsJsonName \in DOMAIN files)
    => (pc = "store_read" /\ loaded = products)

\* a snapshot with a key and a field that JSON escapes, and a None field,
\* has been written and read back
C1_Witness ==
    /\ entry = "store.calls"
    /\ pc = "store_read"
    /\ ProductsJsonName \in DOMAIN files
    /\ \E i \in 1..Len(products) :
          /\ products[i][1] = <<Quote>>
          /\ products[i][2] # <<>>
          /\ Field(products[i][2], "name") = Str(<<"x", Newline, EAcute>>)
          /\ Field(products[i][2], "fund_type") = NoneV

(* iShares: the enrichment pass *)

IsEnrichmentOver ==
    \/ pc \in {"is_persist", "is_acquire", "is_quit", "done"}
    \/ pc = "crashed" /\ intermediate_json # <<>>
\* the detail pages visited that yielded no natural identifier: the ISIN
\* element read as empty text, or was not found (the visit that ended the run)
IsUnidentified ==
    Cardinality({i \in 1..Len(yielded) : yielded[i] = <<>>})
    + (IF pc = "crashed" /\ intermediate_json # <<>> /\ Len(yielded) = cursor - 1
       THEN 1 ELSE 0)

\* C2: when the enrichment pass of _get_final_products_json is over and one
\* detail page yielded no natural identifier (ISIN element not found, or its
\* text empty), every provisional record was visited, an error was logged,
\* that record is not in the snapshot (no entry under the empty identifier)
\* and the snapshot has one entry fewer than there are provisional records.
C2_DropOnMissingIdentifier ==
    (entry = "ishares.main" /\ IsEnrichmentOver /\ IsUnidentified = 1)
    => /\ pc # "crashed"
       /\ Len(yielded) = Len(intermediate_json)
       /\ WarningsOrErrors # {}
       /\ ~DictHas(products, <<>>)
       /\ Len(products) = Len(intermediate_json) - 1

(* iShares: direct-transfer acquisition *)

IsAcquiring == pc \in {"is_acquire", "is_quit", "done"}

\* C3: in ISharesScraper.download_product_files no exception is raised; the
\* records are requested one after the other, whatever status the earlier
\* ones received, and all of them by the end of the loop; a record answered
\* with a status other than 200 has an error logged and no file created or
\* modified under its name; a record answered with 200 has the body written
\* to its file.
C3_TransferFailureContained ==
    /\ requested # <<>> => (IsAcquiring /\ exc = NoExc)
    /\ (entry = "ishares.main" /\ IsAcquiring) =>
          /\ Len(requested) = (IF pc = "is_acquire" THEN cursor - 1 ELSE Len(products))
          /\ ErrorCount("Failed to download file")
                = Cardinality({i \in 1..Len(requested) : requested[i].status # 200})
          /\ \A i \in 1..Len(requested) :
                LET name == IsFileName(products[i][1], products[i][2])
                IN /\ requested[i].url = Field(products[i][2], "holdings_file").s
                   /\ requested[i].status = 200 =>
                         /\ name \in DOMAIN files
                         /\ files[name].content = <<"holdings rows">>
                         /\ files[name].mtime > 0
                   /\ requested[i].status # 200 =>
                         (name \in DOMAIN files => files[name] = StaleFile)

\* a record answered 404 whose stale file is untouched, then a later record
\* answered 200 and written
C3_Witness ==
    /\ entry = "ishares.main"
    /\ IsAcquiring
    /\ \E i, j \in 1..Len(requested) :
          /\ i < j
          /\ requested[i].status = 404
          /\ IsFileName(products[i][1], products[i][2]) \in DOMAIN files
          /\ requested[j].status = 200
          /\ IsFileName(products[j][1], products[j][2]) \in DOMAIN files

(* Vanguard: UI-triggered acquisition *)

\* C4: a call of VanguardScraper.download_product_files with a snapshot that
\* holds a partition other than equity, bond and multi_asset ends with the
\* ValueError of _download_single_product_holdings, nothing clicked for the
\* record of that partition.
C4_UnknownPartitionRaisesValueError ==
    (entry = "vanguard.calls" /\ RunEnded /\ products # <<>>
        /\ \E i \in 1..Len(products) : products[i][1] \notin {<<t>> : t \in VgKnownTypes})
    => exc = Raised("ValueError", "_download_single_product_holdings")

(* Both providers *)

\* C5: _click_button_by_xpath never lets an exception out when its button
\* does not become clickable: no run ends on an exception raised there.
C5_ClickAbsenceTolerated == exc.at # "_click_button_by_xpath"

\* C6: an element that _get_located_element does not find within the wait
\* never ends the run: no run ends on the timeout raised there.
C6_LocateFailureContained ==
    ~(pc = "crashed" /\ exc = Raised(WaitTimeout, "_get_located_element"))

\* C7: when a run of main() has ended, normally or on an exception, quit()
\* has been called exactly once.
C7_QuitOnEveryPath == (entry \in MainEntries /\ RunEnded) => quitCalls = 1

\* C8: a run of main() in which every page element was found ends normally,
\* with the snapshot file written before the first acquisition and every
\* record of the snapshot acquired.
C8_PhasesReachAcquisition ==
    (entry \in MainEntries /\ RunEnded /\ exc.type # WaitTimeout)
    => /\ pc = "done"
       /\ ProductsJsonName \in DOMAIN files
       /\ \A n \in DOMAIN files : n # ProductsJsonName =>
             files[n].mtime = 0 \/ files[n].mtime > files[ProductsJsonName].mtime

(* Uniqueness of natural identifiers *)

\* the keys of dict d are pairwise distinct
DistinctKeys(d) == \A i, j \in 1..Len(d) : i # j => d[i][1] # d[j][1]
\* the detail pages whose records _get_final_products_json has stored
IsStored == IF pc = "is_enrich" THEN cursor - 1 ELSE Len(yielded)
\* the snapshot of Vanguard's get_products_json has been built
VgBuilt == entry = "vanguard.main" /\ pc = "crashed" /\ exc.type = "AttributeError"

C10_AdmissionFilter ==
    (entry = "ishares.main" /\ pc \in {"is_enrich", "is_persist"}) =>
       LET etfs == SelectSeq(listing[1], LAMBDA row : row.type = <<"ETF">>)
       IN /\ Len(intermediate_json) = Len(etfs)
          /\ \A i \in 1..Len(etfs) :
                Field(intermediate_json[i][2], "product_page") = Str(etfs[i].product_page)
          /\ WarningsOrErrors = {}

\* a listing with an ETF row and rows of other types has been read: one
\* provisional record
C10_Witness ==
    /\ entry = "ishares.main"
    /\ pc = "is_enrich"
    /\ Len(listing[1]) = 2
    /\ listing[1][1].type = <<"Fund">>
    /\ listing[1][2].type = <<"ETF">>
    /\ Len(intermediate_json) = 1

(* iShares: the naming contract of direct transfer *)

\* where the query of a URL ends: before the fragment
C11_QueryEnd(url) == IF IndexOf(url, "#") = 0 THEN Len(url) ELSE IndexOf(url, "#") - 1
\* the places of the query where a parameter named fileType starts
C11_Occurrences(url) ==
    { i \in 2..(C11_QueryEnd(url) - 1) :
        /\ url[i] = "fileType"
        /\ url[i + 1] = "="
        /\ IndexOf(url, "?") # 0
        /\ \/ i - 1 = IndexOf(url, "?")
           \/ i - 1 > IndexOf(url, "?") /\ url[i - 1] = "&" }
\* the value of the parameter that starts at i: up to the next "&"
C11_ValueAt(url, i) ==
    LET stops == { j \in (i + 2)..C11_QueryEnd(url) : url[j] = "&" }
        stop == IF stops = {} THEN C11_QueryEnd(url) + 1
                ELSE CHOOSE j \in stops : \A k \in stops : j <= k
    IN SubSeq(url, i + 2, stop - 1)
C11_First(occ) == CHOOSE i \in occ : \A k \in occ : i <= k
\* the extension the claim names: the first value of fileType when the
\* parameter is present, "csv" otherwise
C11_DeclaredExtension(url) ==
    IF C11_Occurrences(url) = {} THEN <<"csv">>
    ELSE C11_ValueAt(url, C11_First(C11_Occurrences(url)))
\* the same, a fileType with a blank value counting as absent
C11_NonBlankExtension(url) ==
    LET occ == { i \in C11_Occurrences(url) : C11_ValueAt(url, i) # <<>> }
    IN IF occ = {} THEN <<"csv">> ELSE C11_ValueAt(url, C11_First(occ))
C11_Body == <<"holdings rows">>

\* C11 as stated: a record I of the snapshot whose holdings URL was answered
\* 200 has its file under the name I.E, E the first value of the URL's
\* fileType parameter when the URL has that parameter and "csv" otherwise,
\* the file's content the response body.
C11_NamingContract ==
    (entry = "ishares.main" /\ IsAcquiring) =>
       \A i \in 1..Len(requested) :
          requested[i].status = 200 =>
             LET name == products[i][1] \o <<".">> \o C11_DeclaredExtension(requested[i].url)
             IN /\ name \in DOMAIN files
                /\ files[name].content = C11_Body

\* C11 as amended: a record I of the snapshot whose holdings URL was answered
\* 200 has its file under the name I.E, E the first non-blank value of the
\* fileType parameter of the URL's query and "csv" when the query has none
\* (a fileType with a blank value counts as absent), the file's content the
\* response body; the download folder holds no other file than these, the
\* snapshot file and what it held before the run.
C11_NamingContractNonBlank ==
    (entry = "ishares.main" /\ IsAcquiring) =>
       LET name(i) == products[i][1] \o <<".">> \o C11_NonBlankExtension(requested[i].url)
       IN /\ \A i \in 1..Len(requested) :
                requested[i].status = 200 =>
                   /\ name(i) \in DOMAIN files
                   /\ files[name(i)].content = C11_Body
          /\ \A n \in DOMAIN files :
                \/ n = ProductsJsonName
                \/ files[n].mtime = 0
                \/ \E i \in 1..Len(requested) : requested[i].status = 200 /\ n = name(i)

\* one record whose URL has two fileType values and one whose fileType is
\* blank, both answered 200: IE00A.xlsx and IE00B.csv are written
C11_Witness ==
    /\ entry = "ishares.main"
    /\ pc = "done"
    /\ Len(requested) = 2
    /\ requested[1].status = 200 /\ requested[2].status = 200
    /\ products[1][1] = <<"IE00A">> /\ products[2][1] = <<"IE00B">>
    /\ Cardinality(C11_Occurrences(requested[1].url)) = 2
    /\ C11_Occurrences(requested[2].url) # {}
    /\ C11_ValueAt(requested[2].url, C11_First(C11_Occurrences(requested[2].url))) = <<>>
    /\ <<"IE00A", ".", "xlsx">> \in DOMAIN files
    /\ files[<<"IE00A", ".", "xlsx">>].content = C11_Body
    /\ <<"IE00B", ".", "csv">> \in DOMAIN files
    /\ files[<<"IE00B", ".", "csv">>].content = C11_Body

(* The File Acquirer run again on the folder an earlier run left *)

LastCall == calls[Len(calls)]
\* the files of the folder fs named after identifier id: id.ext
FilesOf(fs, id) == { n \in DOMAIN fs : Len(n) = Len(id) + 2 /\ SubSeq(n, 1, Len(id)) = id
                                        /\ n[Len(id) + 1] = "." }
VgKnownPartitions(d) == \A p \in 1..Len(d) : d[p][1] \in { <<t>> : t \in VgKnownTypes }

\* C12, for UI-triggered download-and-rename: when VanguardScraper's
\* download_product_files has been run on a snapshot of known partitions and
\* a download folder, empty or left by an earlier run, the run has ended
\* without an exception and the folder holds exactly one file per identifier
\* of the snapshot.
C12_IdempotentResume ==
    (entry = "vanguard.calls" /\ calls # <<>> /\ LastCall.method = "download_product_files"
        /\ VgKnownPartitions(products))
    => /\ exc = NoExc
       /\ \A p \in 1..Len(products) : \A k \in 1..Len(products[p][2]) :
             Cardinality(FilesOf(files, products[p][2][k][1])) = 1

(* The locator kinds of _get_located_element *)

\* the direct calls that reach a wait.until: _get_located_element with a
\* locator it matches, _download_single_product_holdings with a partition it
\* matches
WaitingCalls ==
    { i \in 1..Len(calls) :
        \/ calls[i].method = "_get_located_element" /\ calls[i].kind \in {"xpath", "classname"}
        \/ /\ calls[i].method = "_download_single_product_holdings"
           /\ calls[i].kind \in {"equity", "bond", "multi_asset"} }

\* C13: a call of _get_located_element with a locator other than "xpath" and
\* "classname" logs the error "Locator not implemented" and ends with
\* ValueError raised to the caller, and it makes no wait: the waits made are
\* those of the other calls.
C13_UnsupportedLocatorRaises ==
    entry = "vanguard.calls" =>
       /\ waits = Cardinality(WaitingCalls)
       /\ (calls # <<>> /\ LastCall.method = "_get_located_element"
              /\ LastCall.kind \notin {"xpath", "classname"})
          => /\ pc = "crashed"
             /\ exc = Raised("ValueError", "_get_located_element")
             /\ log # <<>>
             /\ log[Len(log)] = Error("Locator not implemented")

\* an element located by xpath, then a call with the locator "css"
C13_Witness ==
    /\ entry = "vanguard.calls"
    /\ Len(calls) = 2
    /\ calls[1] = Call("_get_located_element", "xpath", <<>>, "element")
    /\ calls[2] = Call("_get_located_element", "css", <<>>, "raised")
    /\ waits = 1
    /\ exc.type = "ValueError"

(* The shape of the snapshot *)

\* the field names of record r, in order
FieldNames(r) == [i \in 1..Len(r) |-> r[i][1][1]]
\* the snapshot get_products_json of iShares hands to _write_products_json
\* and main() to download_product_files
IsHanded == entry = "ishares.main" /\ pc \in {"is_persist", "is_acquire", "is_quit", "done"}
\* the identifiers the pages showed: the ISIN texts of the detail pages
\* (iShares), the ISIN column of the listing (Vanguard)
IsIdentifiers == { yielded[i] : i \in 1..Len(yielded) }
VgIdentifiers == UNION { { listing[p][i].isin : i \in 1..Len(listing[p]) } : p \in 1..Len(listing) }
\* the fixed fields the spec lists
C14_FixedFields ==
    {"name", "currency", "ter", "date", "price", "factsheet", "kid", "holdings_file",
     "product_page"}

IsDownloadSingleStep ==
    /\ entry = "vanguard.calls"
    /\ Len(calls') = Len(calls) + 1
    /\ calls'[Len(calls')].method = "_download_single_product_holdings"

\* C15: a call of _download_single_product_holdings for one record leaves
\* every file acquired earlier in the run for another record in the folder,
\* under its name and as it was.
C15_AcquiredFileStays ==
    [][IsDownloadSingleStep =>
          \A id \in VgIsins \ {calls'[Len(calls')].isin} :
             \A n \in FilesOf(files, id) :
                files[n].mtime > 0 => (n \in DOMAIN files' /\ files'[n] = files[n])]_vars

(* The snapshot file in the download folder *)

\* the caller's last _write_products_json has been followed by acquisitions
\* only
VgWrittenThenAcquired ==
    /\ entry = "vanguard.calls"
    /\ \E i \in 1..Len(calls) :
          /\ calls[i].method = "_write_products_json"
          /\ \A j \in (i + 1)..Len(calls) :
                calls[j].method = "_download_single_product_holdings"

\* C16: once the snapshot has been written, the acquisitions that follow
\* (the loop of iShares' download_product_files, calls of Vanguard's
\* _download_single_product_holdings) leave products.json in the download
\* folder with the content _write_products_json gave it.
C16_SnapshotFileKept ==
    /\ (entry = "ishares.main" /\ IsAcquiring) =>
          /\ ProductsJsonName \in DOMAIN files
          /\ files[ProductsJsonName].content = JsonDumpDict(products, 2, 0)
    /\ VgWrittenThenAcquired =>
          /\ ProductsJsonName \in DOMAIN files
          /\ files[ProductsJsonName].content = JsonDumpDict(products, 3, 0)

(* The failure modes of _rename_latest_downloaded_file *)

NewLogs == SubSeq(log', Len(log) + 1, Len(log'))
NewCall == calls'[Len(calls')]
NoFilesError == Error("No files found in the download folder")
RenameError == Error("Error renaming file")
IsRenameStep ==
    /\ entry = "vanguard.calls"
    /\ Len(calls') = Len(calls) + 1
    /\ NewCall.method = "_rename_latest_downloaded_file"

\* C17: a call of _rename_latest_downloaded_file never ends on an exception.
\* On a folder with no files it logs the error "No files found in the
\* download folder", returns False and leaves the folder as it is.  On a
\* folder with files it either renames the latest file to the new name and
\* returns True, or, os.rename failing, logs the error "Error renaming file",
\* returns False and leaves the folder as it is.  A call of
\* _download_single_product_holdings that has clicked its button returns
\* normally whatever the renaming did, its caller going on with the next
\* call, and a failed renaming leaves no new file under the record's name.
C17_RenameFailureModes ==
    [][/\ IsRenameStep =>
             /\ exc' = NoExc /\ pc' = "vg_call"
             /\ files = NoFiles =>
                   /\ NewLogs = <<NoFilesError>>
                   /\ NewCall.result = "False"
                   /\ files' = files
             /\ files # NoFiles =>
                   \/ /\ NewCall.result = "True"
                      /\ NewLogs = <<Info("Renaming file")>>
                      /\ FilesOf(files', NewCall.isin) # {}
                      /\ Cardinality(DOMAIN files') <= Cardinality(DOMAIN files)
                   \/ /\ NewCall.result = "False"
                      /\ NewLogs = <<Info("Renaming file"), RenameError>>
                      /\ files' = files
       /\ (IsDownloadSingleStep /\ clicked' # clicked) =>
             /\ exc' = NoExc /\ pc' = "vg_call" /\ cursor' = cursor + 1
             /\ NewCall.result = "None"
             /\ NewLogs[Len(NewLogs)] = NoFilesError => (files = NoFiles /\ files' = files)
             /\ NewLogs[Len(NewLogs)] = RenameError =>
                   FilesOf(files', NewCall.isin) = FilesOf(files, NewCall.isin)]_vars

\* a renaming on the empty folder returned False, and the caller went on to
\* acquire the next record, whose renaming failed in os.rename
C17_Witness ==
    /\ entry = "vanguard.calls"
    /\ pc = "vg_call"
    /\ Len(calls) = 2
    /\ calls[1] = Call("_rename_latest_downloaded_file", "", <<"IE00A">>, "False")
    /\ calls[2] = Call("_download_single_product_holdings", "equity", <<"IE00B">>, "None")
    /\ log[1] = NoFilesError
    /\ log[Len(log)] = RenameError
    /\ DOMAIN files = { <<"Holdings_details", ".", "xlsx">> }

(* iShares: the merge of listing fields and detail fields *)

\* the detail page, of those stored so far, whose record the snapshot keeps
\* under key
IsLastYielding(key) ==
    CHOOSE i \in 1..IsStored :
        /\ yielded[i] = key
        /\ \A j \in (i + 1)..IsStored : yielded[j] # key

\* C18: every record of the snapshot holds every field of its provisional
\* record that the detail page does not give, with the listing's value, and
\* every field the detail page gave (the ISIN apart, which is the key), with
\* the detail page's value.
C18_MergeUnion ==
    (entry = "ishares.main" /\ pc \in {"is_enrich", "is_persist"}) =>
       \A k \in 1..Len(products) :
          LET final == products[k][2]
              prov == intermediate_json[IsLastYielding(products[k][1])][2]
              infos == IsAdditionalInfos(products[k][1], Field(final, "holdings_file").s)
          IN /\ \A f \in DictKeys(infos) \ { <<"isin">> } :
                   DictHas(final, f) /\ DictGet(final, f) = DictGet(infos, f)
             /\ \A f \in DictKeys(prov) \ DictKeys(infos) :
                   DictHas(final, f) /\ DictGet(final, f) = DictGet(prov, f)

(* iShares: the surrogate keys *)

\* the text of the numbers 0..9
C19_Numeral(n) == <<"0", "1", "2", "3", "4", "5", "6", "7", "8", "9">>[n + 1]
\* _get_intermediate_products_json has returned
IsExtracted ==
    /\ entry = "ishares.main"
    /\ \/ pc \in {"is_enrich", "is_persist", "is_acquire", "is_quit", "done"}
       \/ pc = "crashed" /\ intermediate_json # <<>>

\* C19: for a listing with n rows of type "ETF" the keys of the provisional
\* records are dummy_key_0 .. dummy_key_(n-1) in this order, and the record
\* under dummy_key_(k-1) holds the name, the page and the columns of the
\* k-th such row in rendered order.
C19_SurrogateKeys ==
    IsExtracted =>
       LET etfs == SelectSeq(listing[1], LAMBDA row : row.type = <<"ETF">>)
       IN /\ Len(intermediate_json) = Len(etfs)
          /\ \A k \in 1..Len(etfs) :
                /\ intermediate_json[k][1] = <<"dummy_key_", C19_Numeral(k - 1)>>
                /\ Field(intermediate_json[k][2], "name") = Str(etfs[k].name)
                /\ Field(intermediate_json[k][2], "product_page") = Str(etfs[k].product_page)
                /\ Field(intermediate_json[k][2], "currency") = Str(etfs[k].currency)
                /\ Field(intermediate_json[k][2], "hedged") = Str(etfs[k].hedged)
                /\ Field(intermediate_json[k][2], "acc_distr") = Str(etfs[k].acc_distr)
                /\ Field(intermediate_json[k][2], "ter") = Str(etfs[k].ter)
                /\ Field(intermediate_json[k][2], "date") = Str(etfs[k].date)

\* a skipped row, then an admitted one: the second row has dummy_key_0
C19_Witness ==
    /\ entry = "ishares.main"
    /\ pc = "is_enrich"
    /\ Len(listing[1]) = 2
    /\ listing[1][1].type = <<"ETC">>
    /\ listing[1][2].type = <<"ETF">>
    /\ DictKeys(intermediate_json) = { <<"dummy_key_", "0">> }
    /\ Field(intermediate_json[1][2], "product_page") = Str(listing[1][2].product_page)

(* The store is replaced, and written only when the snapshot is complete *)

\* the text json.dump writes for a snapshot of records
C20_Document(snapshot) == JsonDumpDict(snapshot, 2, 0)

\* C20: whatever was saved before, the snapshot file holds the document of
\* the snapshot saved last and nothing else, and _read_products_json returns
\* that snapshot; in the iShares pipeline the file is written only when every
\* provisional record has been enriched, and until then, also when the
\* enrichment ends on an exception, the file is as the run found it (absent,
\* or the snapshot of an earlier run).
C20_ReplacedWhenComplete ==
    /\ (entry = "store.calls" /\ clock >= 1) =>
          /\ ProductsJsonName \in DOMAIN files
          /\ files[ProductsJsonName].content = C20_Document(products)
          /\ pc = "store_read" => loaded = products
    /\ (entry = "ishares.main" /\ IsAcquiring) =>
          /\ Len(yielded) = Len(intermediate_json)
          /\ files[ProductsJsonName].content = C20_Document(products)
          /\ files[ProductsJsonName].mtime = 1
    /\ (entry = "ishares.main" /\ ~IsAcquiring) =>
          (ProductsJsonName \in DOMAIN files => files[ProductsJsonName] = StaleSnapshot)

\* a snapshot saved over an earlier one and read back
C20_Witness ==
    /\ entry = "store.calls"
    /\ pc = "store_read"
    /\ clock = 2
    /\ files[ProductsJsonName].mtime = 2
    /\ products = <<>>
    /\ loaded = <<>>

\* an enrichment pass that ended on its second detail page, the first
\* record already in the dict: the snapshot file of the earlier run is
\* untouched
C20_AbortedEnrichment ==
    /\ entry = "ishares.main"
    /\ pc = "crashed"
    /\ Len(intermediate_json) = 2
    /\ Len(products) = 1
    /\ ProductsJsonName \in DOMAIN files
    /\ files[ProductsJsonName] = StaleSnapshot

=============================================================================
